---- MODULE Spec2Model ----
(***************************************************************************)
(* SketchFlow web client: the conversion lifecycle of the Home page        *)
(* (upload -> convert -> preview), the SketchUpload validation, the        *)
(* handleConvert request with its token retrieval and abort timer, and     *)
(* the sessionStorage snapshot that carries a preview across a redirect.   *)
(***************************************************************************)
EXTENDS Integers, Sequences, FiniteSets, TLC

(***************************************************************************)
(* Bounds of the model.                                                    *)
(***************************************************************************)
\* handleConvert invocations explored per page load
MaxCalls == 2
\* file items carried by one paste / drop event
MaxItems == 2
\* renders a MermaidPreview may have in flight at once
MaxRenders == 2

(***************************************************************************)
(* Program constants.                                                      *)
(***************************************************************************)
validTypes == {"image/jpeg", "image/jpg", "image/png", "image/webp"}
maxSize == 10 * 1024 * 1024
TimeoutMs == 300000
\* granularity with which the model lets time pass while a fetch is pending
TickMs == TimeoutMs \div 2

TypeError == "Please upload a JPG, PNG, or WebP image file."
SizeError == "File size must be less than 10MB."

(***************************************************************************)
(* Input domains.                                                          *)
(***************************************************************************)
MimeTypes == validTypes \cup {"image/gif"}
Sizes == {2 * 1024 * 1024, maxSize, maxSize + 1}
Files == [type : MimeTypes, size : Sizes]
\* selectedFile === null
NullFile == [type |-> "null", size |-> 0]

NotesTexts == {"", "login flow"}
Formats == {"mermaid", "drawio"}
Codes == {"flowchart TD", "<mxGraphModel/>"}
HttpStatuses == {200, 404, 500}

\* the file lists a drop or paste event can carry: any single file, or up to
\* MaxItems files out of one valid, one of a wrong type and one too large
SampleFiles == {[type |-> "image/png", size |-> 2 * 1024 * 1024],
                [type |-> "image/gif", size |-> 2 * 1024 * 1024],
                [type |-> "image/png", size |-> maxSize + 1]}
FileLists == [1..1 -> Files] \cup UNION {[1..n -> SampleFiles] : n \in 2..MaxItems}

\* outcome of one fetch: a network failure, or an HTTP response with a body
NoReply == [kind |-> "none", http |-> 0, json |-> FALSE, status |-> "",
            hasResult |-> FALSE, code |-> "", rjob |-> "", job |-> ""]
Replies ==
    {[NoReply EXCEPT !.kind = "neterror"]}
    \cup {[NoReply EXCEPT !.kind = "http", !.http = h] : h \in HttpStatuses \ {200}}
    \cup {[NoReply EXCEPT !.kind = "http", !.http = 200]}
    \cup {[NoReply EXCEPT !.kind = "http", !.http = 200, !.json = TRUE, !.status = s]
            : s \in {"completed", "failed", "queued"}}
    \cup {[kind |-> "http", http |-> 200, json |-> TRUE, status |-> "completed",
           hasResult |-> TRUE, code |-> c, rjob |-> j[1], job |-> j[2]]
            : c \in Codes \cup {""},
              j \in {<<"abc", "">>, <<"", "xyz">>, <<"", "">>, <<"abc", "xyz">>}}

(***************************************************************************)
(* State.                                                                  *)
(***************************************************************************)
VARIABLES
    page,               \* which document the tab shows
    conversionState,    \* Home: useState<ConversionState>
    selectedFile,       \* Home: useState<File | null>
    notes,              \* Home: useState('')
    format,             \* Home: useState<DiagramFormat>
    generatedDiagram,   \* Home: useState<string>
    jobId,              \* Home: useState<string>
    validationError,    \* SketchUpload: useState<string>
    isDragOver,         \* SketchUpload: useState(false)
    calls,              \* pending handleConvert invocations
    submits,            \* handleConvert invocations of this page load
    requestsSent,       \* POST /api/convert requests of this page load
    storage,            \* sessionStorage: sf.redirect, sf.previewState
    authSession,        \* access token of the identity session, "" if none
    configured,         \* NEXT_PUBLIC_SUPABASE_URL and _ANON_KEY are both set
    idpInHistory,       \* the tab's history holds the identity provider's page
    callback,           \* AuthCallback: position of run(), flow, redirectTarget
    adapter,            \* DiagramPreview: the mounted renderer and its state
    last                \* the last event handled and what it acted on

vars == <<page, conversionState, selectedFile, notes, format, generatedDiagram,
          jobId, validationError, isDragOver, calls, submits, requestsSent,
          storage, authSession, configured, idpInHistory, callback, adapter, last>>

navVars == <<configured, idpInHistory, callback>>

sessionVars == <<conversionState, selectedFile, notes, format, generatedDiagram, jobId>>

\* the six Home state fields as one value
Session ==
    [conversionState |-> conversionState, selectedFile |-> selectedFile,
     notes |-> notes, format |-> format,
     generatedDiagram |-> generatedDiagram, jobId |-> jobId]

NoCall == [pc |-> "none", file |-> NullFile, format |-> "", notes |-> "",
           tok |-> "", auth |-> "", sent |-> 0, elapsed |-> 0, timer |-> FALSE]

\* one asynchronous mermaid render: its input and the effect's cancelled flag
NoRender == [input |-> "", cancelled |-> FALSE]

\* what Home held when its document was last unloaded, and whether a return
\* path was stored then
NoLeft == [conversionState |-> "idle", format |-> "mermaid", generatedDiagram |-> "",
           jobId |-> "", hasRedirect |-> FALSE]

Event(op, files, reply, call, err) ==
    [op |-> op, pre |-> Session, left |-> NoLeft, from |-> "", files |-> files,
     reply |-> reply, call |-> call, err |-> err, render |-> NoRender,
     handshake |-> "", delivered |-> <<>>]

\* Home's document is unloaded with st in sessionStorage
UnloadEvent(op, st) ==
    [Event(op, <<>>, NoReply, NoCall, "") EXCEPT
        !.left = [conversionState |-> conversionState, format |-> format,
                  generatedDiagram |-> generatedDiagram, jobId |-> jobId,
                  hasRedirect |-> (st.redirect # <<>>)]]

\* an event of a document other than Home
OffHomeEvent(op, err) ==
    [Event(op, <<>>, NoReply, NoCall, err) EXCEPT !.left = last.left]


NoEvent == [op |-> "mount", pre |-> [conversionState |-> "idle", selectedFile |-> NullFile,
                                     notes |-> "", format |-> "mermaid",
                                     generatedDiagram |-> "", jobId |-> ""],
            left |-> NoLeft, from |-> "",
            files |-> <<>>, reply |-> NoReply, call |-> NoCall, err |-> "",
            render |-> NoRender, handshake |-> "", delivered |-> <<>>]

(***************************************************************************)
(* Which part of Home is rendered (layout.tsx 496-550, 552-718).           *)
(***************************************************************************)
UploadRendered == page = "home" /\ conversionState = "idle"
FormRendered == page = "home" /\ conversionState \in {"uploading", "processing"}
PreviewRendered == page = "home" /\ conversionState = "completed"
ErrorRendered == page = "home" /\ conversionState = "error"

\* ConversionForm: const isProcessing = conversionState === 'processing'
isProcessing == conversionState = "processing"
\* disabled attributes of the ConversionForm controls
BackButtonDisabled_Never == FALSE
BackButtonDisabled == isProcessing
NotesDisabled_Never == FALSE
NotesDisabled == isProcessing
FormatButtonsDisabled == isProcessing
ConvertButtonDisabled_NoProcessingCheck == selectedFile = NullFile
ConvertButtonDisabled == selectedFile = NullFile \/ isProcessing

(***************************************************************************)
(* Renderer adapters hosted by DiagramPreview: MermaidPreview,             *)
(* DrawioPreview, PlantUMLPreview.                                         *)
(***************************************************************************)
RenderFormats == {"mermaid", "drawio", "uml"}
\* source texts handed to an adapter: generated code, empty, blank
RenderCodes == Codes \cup {"", "   "}
\* String.prototype.trim
Trim(text) == IF text = "   " THEN "" ELSE text

\* the markup mermaid.render returns for a source text
Svg(code) == <<"svg", code>>
\* the catch block's message: e.message of an Error, a default otherwise
MermaidErrorMessage(e) ==
    IF e = "Error" THEN "Parse error" ELSE "Failed to render Mermaid diagram"
\* mermaid.parse / mermaid.render resolve, or reject with some value
MermaidOutcomes == {"svg", "Error", "other"}

\* kind: the adapter mounted ("none" when DiagramPreview is not rendered);
\* error, loading, imgError, hasError: the useState / boundary state;
\* frame, timer: DrawioPreview's iframe and its 10 s timer;
\* container: MermaidPreview's container div is in the committed view
\* (containerRef.current is set); superseding: the render of the current
\* input was started while another was in flight;
\* innerHTML: content of MermaidPreview's container; img: the <img> request;
\* renders: mermaid renders in flight; result: how the render of the current
\* input ended ("pending" until then);
\* fallbackUrl, urlPending: DrawioPreview's fallbackUrl state (<<>> for null)
\* and whether the effect computing it is still running;
\* listeners: 'message' listeners DrawioPreview has registered on the window
\* and not removed; activeView: DiagramPreview's Preview / Code toggle;
\* copied, downloaded: DiagramPreview's button flags
NoAdapter ==
    [kind |-> "none", code |-> "", error |-> "", loading |-> FALSE,
     frame |-> FALSE, timer |-> FALSE, container |-> FALSE, superseding |-> FALSE,
     innerHTML |-> <<>>, img |-> "none",
     imgError |-> FALSE, hasError |-> FALSE, renders |-> <<>>, result |-> "none",
     fallbackUrl |-> <<>>, urlPending |-> FALSE, listeners |-> 0,
     activeView |-> "preview", copied |-> FALSE, downloaded |-> FALSE]

\* effect cleanup: cancelled = true for the render the effect started
Cancelled(renders) == [i \in DOMAIN renders |-> [renders[i] EXCEPT !.cancelled = TRUE]]

\* MermaidPreview returns the container div unless error is set
MermaidContainerRendered(a) == a.error = ""

\* MermaidPreview is rendered and committed with the state it has, then its
\* effect runs for the (new) code: cleanup of the previous run,
\* setError(null), render() started
MermaidEffect(a, code) ==
    [a EXCEPT !.code = code, !.error = "",
              !.container = MermaidContainerRendered(a),
              !.innerHTML = IF a.container THEN a.innerHTML ELSE <<>>,
              !.superseding = (\E i \in DOMAIN a.renders : ~a.renders[i].cancelled),
              !.renders = Append(Cancelled(a.renders), [input |-> code, cancelled |-> FALSE]),
              !.result = "pending"]

DrawioContainerRendered_Always(a) == a.kind = "drawio"

\* DrawioPreview returns the container div only when neither error nor
\* loading is set; the error and the loading view have no ref
DrawioContainerRendered(a) == a.kind = "drawio" /\ a.error = "" /\ ~a.loading

\* DrawioPreview render(): without a container or without xml it returns at
\* once; otherwise it embeds the frame, listens for init and arms the timer
DrawioRender(containerPresent, xml) ==
    IF ~containerPresent \/ xml = ""
    THEN [frame |-> FALSE, timer |-> FALSE, listener |-> FALSE]
    ELSE [frame |-> TRUE, timer |-> TRUE, listener |-> TRUE]

\* the #R url of the full editor: deflateRaw + base64 of the xml
EscapeHatchUrl(xml) == <<"https://app.diagrams.net/#R", xml>>

\* DrawioPreview's effects for a (new) xml.  The fallbackUrl effect: null at
\* once for empty xml, else the computation starts (the one before is
\* cancelled).  The render effect: cleanup (cancelled, clearTimeout; the
\* listener of the run before is not removed), setError(null),
\* setLoading(true), render() against the DOM committed before the effect
DrawioEffect(a, xml) ==
    LET r == DrawioRender(DrawioContainerRendered(a), xml) IN
    [a EXCEPT !.code = xml, !.error = "", !.loading = TRUE,
              !.frame = r.frame, !.timer = r.timer,
              !.listeners = IF r.listener THEN @ + 1 ELSE @,
              !.fallbackUrl = IF xml = "" THEN <<>> ELSE @,
              !.urlPending = (xml # ""),
              !.result = IF r.frame THEN "pending" ELSE "none"]

\* PlantUMLPreview render for a (new) code: imgError is kept; the <img> is
\* rendered, and requested, only for non-blank code without imgError
PlantUMLRender(a, code) ==
    LET shown == Trim(code) # "" /\ ~a.imgError IN
    [a EXCEPT !.code = code, !.img = IF shown THEN "pending" ELSE "none",
              !.result = IF shown THEN "pending" ELSE "none"]

\* DiagramPreview is unmounted: its state and its adapter's are gone, what
\* the adapter left registered on the window stays
UnmountPreview(old) == [NoAdapter EXCEPT !.listeners = old.listeners]

\* the adapter is unmounted, DiagramPreview stays: the renders of the
\* unmounted component are gone with it
UnmountAdapter(old) ==
    [UnmountPreview(old) EXCEPT !.copied = old.copied, !.downloaded = old.downloaded]

\* the adapter of the format is mounted; an adapter mounted before is
\* unmounted
MountAdapter(fmt, code, old) ==
    LET base == UnmountAdapter(old) IN
    IF fmt = "mermaid" THEN MermaidEffect([base EXCEPT !.kind = "mermaid"], code)
    ELSE IF fmt = "drawio"
         THEN DrawioEffect([base EXCEPT !.kind = "drawio", !.loading = TRUE], code)
         ELSE PlantUMLRender([base EXCEPT !.kind = "uml"], code)

\* what the adapter shows: Loading, Ready or Error
Outcome(a) ==
    IF a.kind = "mermaid"
    THEN IF a.hasError \/ ~a.container THEN "Error"
         ELSE IF a.innerHTML # <<>> THEN "Ready" ELSE "Loading"
    ELSE IF a.kind = "drawio"
    THEN IF a.error # "" THEN "Error" ELSE IF a.loading THEN "Loading" ELSE "Ready"
    ELSE IF a.kind = "uml"
    THEN IF Trim(a.code) = "" THEN "Ready"
         ELSE IF a.imgError THEN "Error"
         ELSE IF a.img = "loaded" THEN "Ready" ELSE "Loading"
    ELSE "none"

\* the explicit nothing-to-display text, "" when the adapter shows none
EmptyIndicator(a) ==
    IF a.kind = "uml" /\ Trim(a.code) = "" THEN "No UML code to preview." ELSE ""

\* a state update of MermaidPreview has not been rendered yet
CommitPending(a) ==
    a.kind = "mermaid" /\ ~a.hasError /\ a.container # MermaidContainerRendered(a)

\* an asynchronous step of the adapter is still to come
AdapterPending(a) ==
    \/ \E i \in DOMAIN a.renders : ~a.renders[i].cancelled
    \/ CommitPending(a)
    \/ a.img = "pending"
    \/ a.timer
    \/ a.urlPending

\* the "Open in Draw.io" link is part of the error view only
LinkExposed(a) == a.kind = "drawio" /\ a.error # "" /\ a.fallbackUrl # <<>>


(***************************************************************************)
(* SketchUpload.                                                           *)
(***************************************************************************)
validateImageFile_SizeExclusive(file) ==
    IF file.type \notin validTypes
    THEN [isValid |-> FALSE, error |-> TypeError]
    ELSE IF file.size >= maxSize
         THEN [isValid |-> FALSE, error |-> SizeError]
         ELSE [isValid |-> TRUE, error |-> ""]

validateImageFile_NoSizeCheck(file) ==
    IF file.type \notin validTypes
    THEN [isValid |-> FALSE, error |-> TypeError]
    ELSE [isValid |-> TRUE, error |-> ""]

validateImageFile(file) ==
    IF file.type \notin validTypes
    THEN [isValid |-> FALSE, error |-> TypeError]
    ELSE IF file.size > maxSize
         THEN [isValid |-> FALSE, error |-> SizeError]
         ELSE [isValid |-> TRUE, error |-> ""]

\* Home.handleFileSelect; leaving 'idle' unmounts SketchUpload and its state
handleFileSelect(file) ==
    /\ selectedFile' = file
    /\ conversionState' = "uploading"
    /\ validationError' = ""
    /\ isDragOver' = FALSE

\* file dialog or camera input: onChange with files[0]
HandleFileChange(file) ==
    /\ UploadRendered
    /\ ~isDragOver
    /\ LET validation == validateImageFile(file) IN
       IF validation.isValid
       THEN handleFileSelect(file)
       ELSE /\ validationError' = validation.error
            /\ UNCHANGED <<selectedFile, conversionState, isDragOver>>
    /\ last' = Event("fileChange", <<file>>, NoReply, NoCall, "")
    /\ UNCHANGED <<page, notes, format, generatedDiagram, jobId, calls, submits,
                   requestsSent, storage, authSession>>
    /\ UNCHANGED <<navVars, adapter>>

HandleDragOver ==
    /\ UploadRendered
    /\ isDragOver' = TRUE
    /\ validationError' = ""
    /\ last' = Event("dragOver", <<>>, NoReply, NoCall, "")
    /\ UNCHANGED <<page, sessionVars, calls, submits, requestsSent, storage, authSession>>
    /\ UNCHANGED <<navVars, adapter>>

HandleDragLeave ==
    /\ UploadRendered
    /\ isDragOver
    /\ isDragOver' = FALSE
    /\ last' = Event("dragLeave", <<>>, NoReply, NoCall, "")
    /\ UNCHANGED <<page, sessionVars, validationError, calls, submits, requestsSent,
                   storage, authSession>>
    /\ UNCHANGED <<navVars, adapter>>

\* drop: only files[0] is looked at
HandleDrop(files) ==
    /\ UploadRendered
    /\ LET validation == validateImageFile(files[1]) IN
       IF validation.isValid
       THEN handleFileSelect(files[1])
       ELSE /\ isDragOver' = FALSE
            /\ validationError' = validation.error
            /\ UNCHANGED <<selectedFile, conversionState>>
    /\ last' = Event("drop", files, NoReply, NoCall, "")
    /\ UNCHANGED <<page, notes, format, generatedDiagram, jobId, calls, submits,
                   requestsSent, storage, authSession>>
    /\ UNCHANGED <<navVars, adapter>>

\* the paste loop: the first valid file item is selected and ends the loop,
\* every invalid item before it sets the validation error
RECURSIVE PasteScan(_, _, _)
PasteScan(items, i, err) ==
    IF i > Len(items)
    THEN [hit |-> FALSE, file |-> NullFile, error |-> err]
    ELSE LET validation == validateImageFile(items[i]) IN
         IF validation.isValid
         THEN [hit |-> TRUE, file |-> items[i], error |-> ""]
         ELSE PasteScan(items, i + 1, validation.error)

OnPaste(items) ==
    /\ UploadRendered
    /\ LET r == PasteScan(items, 1, validationError) IN
       IF r.hit
       THEN handleFileSelect(r.file)
       ELSE /\ validationError' = r.error
            /\ UNCHANGED <<selectedFile, conversionState, isDragOver>>
    /\ last' = Event("paste", items, NoReply, NoCall, "")
    /\ UNCHANGED <<page, notes, format, generatedDiagram, jobId, calls, submits,
                   requestsSent, storage, authSession>>
    /\ UNCHANGED <<navVars, adapter>>

(***************************************************************************)
(* ConversionForm controls wired to the Home setters.                      *)
(***************************************************************************)
UpdateNotes(text) ==
    /\ FormRendered
    /\ ~NotesDisabled
    /\ text # notes
    /\ notes' = text
    /\ last' = Event("notes", <<>>, NoReply, NoCall, "")
    /\ UNCHANGED <<page, conversionState, selectedFile, format, generatedDiagram, jobId,
                   validationError, isDragOver, calls, submits, requestsSent, storage,
                   authSession>>
    /\ UNCHANGED <<navVars, adapter>>

UpdateFormat(fmt) ==
    /\ FormRendered
    /\ ~FormatButtonsDisabled
    /\ format' = fmt
    /\ last' = Event("format", <<>>, NoReply, NoCall, "")
    /\ UNCHANGED <<page, conversionState, selectedFile, notes, generatedDiagram, jobId,
                   validationError, isDragOver, calls, submits, requestsSent, storage,
                   authSession>>
    /\ UNCHANGED <<navVars, adapter>>

\* Home.handleReset
handleReset ==
    /\ conversionState' = "idle"
    /\ selectedFile' = NullFile
    /\ notes' = ""
    /\ generatedDiagram' = ""
    /\ UNCHANGED <<format, jobId>>

\* "Back to Upload", "New Conversion" and "Try Again" all call handleReset
ClickReset ==
    /\ \/ FormRendered /\ ~BackButtonDisabled
       \/ PreviewRendered
       \/ ErrorRendered
    /\ handleReset
    /\ adapter' = IF PreviewRendered THEN UnmountPreview(adapter) ELSE adapter
    /\ last' = Event("reset", <<>>, NoReply, NoCall, "")
    /\ UNCHANGED <<page, validationError, isDragOver, calls, submits, requestsSent,
                   storage, authSession, navVars>>


(***************************************************************************)
(* Home.handleConvert: one invocation is a record in calls, from the click *)
(* to the end of the try/catch.                                            *)
(***************************************************************************)
Remove_Requeued(seq, i) == [seq EXCEPT ![i] = [@ EXCEPT !.pc = "token"]]
Remove(seq, i) == SubSeq(seq, 1, i - 1) \o SubSeq(seq, i + 1, Len(seq))

ClickConvert ==
    /\ FormRendered
    /\ ~ConvertButtonDisabled
    /\ submits < MaxCalls
    /\ selectedFile # NullFile
    /\ conversionState' = "processing"
    /\ calls' = Append(calls, [NoCall EXCEPT !.pc = "token", !.file = selectedFile,
                                             !.format = format, !.notes = notes])
    /\ submits' = submits + 1
    /\ last' = Event("convert", <<>>, NoReply, NoCall, "")
    /\ UNCHANGED <<page, selectedFile, notes, format, generatedDiagram, jobId,
                   validationError, isDragOver, requestsSent, storage, authSession>>
    /\ UNCHANGED <<navVars, adapter>>

\* AuthProvider.getAccessToken: the session's access token, null ("") without
\* a session, or a rejected promise when getSession fails
getAccessTokenOutcomes == IF configured THEN {"throw", authSession} ELSE {""}

AuthorizationHeader_NoTokenCheck(outcome) ==
    IF outcome = "throw" THEN "" ELSE "Bearer " \o outcome

\* the Authorization header built from the token retrieval, "" for no header
AuthorizationHeader(outcome) ==
    IF outcome = "throw" THEN ""
    ELSE IF outcome # "" THEN "Bearer " \o outcome ELSE ""

\* getAccessToken settles; the abort timer is armed and the fetch is issued
TokenSettles(i, outcome) ==
    /\ page = "home"
    /\ i \in 1..Len(calls)
    /\ calls[i].pc = "token"
    /\ outcome \in getAccessTokenOutcomes
    /\ calls' = [calls EXCEPT ![i] = [@ EXCEPT !.pc = "fetch", !.tok = outcome,
                                               !.auth = AuthorizationHeader(outcome),
                                               !.timer = TRUE, !.sent = @ + 1]]
    /\ requestsSent' = requestsSent + 1
    /\ last' = Event("token", <<>>, NoReply, calls'[i], "")
    /\ UNCHANGED <<page, sessionVars, validationError, isDragOver, submits, storage,
                   authSession>>
    /\ UNCHANGED <<navVars, adapter>>

\* time passes while a fetch is pending
Tick ==
    /\ page = "home"
    /\ \E i \in 1..Len(calls) : calls[i].pc = "fetch" /\ calls[i].elapsed < TimeoutMs
    /\ calls' = [i \in 1..Len(calls) |->
                    IF calls[i].pc = "fetch" /\ calls[i].elapsed < TimeoutMs
                    THEN [calls[i] EXCEPT !.elapsed =
                            IF @ + TickMs > TimeoutMs THEN TimeoutMs ELSE @ + TickMs]
                    ELSE calls[i]]
    /\ last' = Event("tick", <<>>, NoReply, NoCall, "")
    /\ UNCHANGED <<page, sessionVars, validationError, isDragOver, submits, requestsSent,
                   storage, authSession>>
    /\ UNCHANGED <<navVars, adapter>>

\* response.ok
ResponseOk(http) == http >= 200 /\ http <= 299

\* result.result.job_id || result.job_id || ''
ReplyJobId(reply) ==
    IF reply.rjob # "" THEN reply.rjob ELSE IF reply.job # "" THEN reply.job ELSE ""

ReplyError_FailedIgnored(reply) ==
    IF reply.kind = "neterror" THEN "TypeError"
    ELSE IF ~ResponseOk(reply.http) THEN "HTTPError"
    ELSE IF ~reply.json THEN "SyntaxError"
    ELSE ""

\* what the rest of the try block does with the settled fetch:
\* the error caught (or logged), "" when none
ReplyError(reply) ==
    IF reply.kind = "neterror" THEN "TypeError"
    ELSE IF ~ResponseOk(reply.http) THEN "HTTPError"
    ELSE IF ~reply.json THEN "SyntaxError"
    ELSE IF reply.status = "completed" /\ reply.hasResult THEN ""
    ELSE IF reply.status = "failed" THEN "ConversionFailed"
    ELSE ""

\* the fetch settles with a network error or an HTTP response
FetchSettles(i, reply) ==
    /\ page = "home"
    /\ i \in 1..Len(calls)
    /\ calls[i].pc = "fetch"
    /\ reply \in Replies
    /\ LET err == ReplyError(reply) IN
       /\ IF err # ""
          THEN /\ conversionState' = "error"
               /\ UNCHANGED <<generatedDiagram, jobId>>
          ELSE IF reply.status = "completed" /\ reply.hasResult
               THEN /\ generatedDiagram' = reply.code
                    /\ jobId' = ReplyJobId(reply)
                    /\ conversionState' = "completed"
                    /\ adapter' = MountAdapter(format, reply.code, adapter)
               ELSE UNCHANGED <<conversionState, generatedDiagram, jobId>>
       /\ (err # "" \/ ~(reply.status = "completed" /\ reply.hasResult))
              => UNCHANGED adapter
       /\ last' = Event("reply", <<>>, reply,
                        [calls[i] EXCEPT !.pc = "done",
                                         !.timer = IF reply.kind = "http" THEN FALSE ELSE @],
                        err)
    /\ calls' = Remove(calls, i)
    /\ UNCHANGED <<page, selectedFile, notes, format, validationError, isDragOver,
                   submits, requestsSent, storage, authSession, navVars>>

TimerDue_HalfTime(elapsed) == elapsed >= TickMs

\* setTimeout(() => controller.abort(), 300000) is due
TimerDue(elapsed) == elapsed >= TimeoutMs

\* the timer fires: abort() rejects the pending fetch with an AbortError,
\* which the catch block logs before setting 'error'
TimeoutAborts(i) ==
    /\ page = "home"
    /\ i \in 1..Len(calls)
    /\ calls[i].pc = "fetch"
    /\ calls[i].timer
    /\ TimerDue(calls[i].elapsed)
    /\ conversionState' = "error"
    /\ last' = Event("timeout", <<>>, NoReply,
                     [calls[i] EXCEPT !.pc = "done", !.timer = FALSE], "AbortError")
    /\ calls' = Remove(calls, i)
    /\ UNCHANGED <<page, selectedFile, notes, format, generatedDiagram, jobId,
                   validationError, isDragOver, submits, requestsSent, storage,
                   authSession>>
    /\ UNCHANGED <<navVars, adapter>>

\* the 'error' branch of Home's render: one static text for every failure;
\* Home keeps no state that tells one failure from another
FailedViewText ==
    "We encountered an error while processing your sketch. Please try again with a different image or check your connection."
\* the failure reason the session shows: "" outside Failed
failureReason == IF conversionState = "error" THEN FailedViewText ELSE ""

(***************************************************************************)
(* sessionStorage, page unload and mount.                                  *)
(***************************************************************************)
\* JSON.stringify of the snapshot object and JSON.parse of the stored text
JSONStringify(o) == <<"format", o.format, "diagramCode", o.diagramCode,
                      "jobId", o.jobId, "conversionState", o.conversionState>>
JSONParse_JobIdDropped(t) == [format |-> t[2], diagramCode |-> t[4], jobId |-> "",
                           conversionState |-> t[8]]
JSONParse(t) == [format |-> t[2], diagramCode |-> t[4], jobId |-> t[6],
                 conversionState |-> t[8]]

onBeforeUnload_NoSnapshot(st) == st

\* Home's beforeunload listener: the storage it leaves behind
onBeforeUnload(st) ==
    LET hasRedirect == st.redirect # <<>> /\ st.redirect[1] # "" IN
    IF ~hasRedirect THEN st
    ELSE IF conversionState = "completed" /\ generatedDiagram # ""
         THEN [st EXCEPT !.previewState =
                 <<JSONStringify([format |-> format, diagramCode |-> generatedDiagram,
                                  jobId |-> jobId, conversionState |-> "completed"])>>]
         ELSE st

\* the document goes away: every component state and pending promise with it
PageDestroyed ==
    /\ conversionState' = "idle"
    /\ selectedFile' = NullFile
    /\ notes' = ""
    /\ format' = "mermaid"
    /\ generatedDiagram' = ""
    /\ jobId' = ""
    /\ validationError' = ""
    /\ isDragOver' = FALSE
    /\ calls' = <<>>
    /\ submits' = 0
    /\ requestsSent' = 0
    /\ adapter' = NoAdapter

\* the credential adapter without configuration: createNoopSupabase
NoopAuthOps == {"getSession", "onAuthStateChange", "signInWithOAuth", "signOut",
                "exchangeCodeForSession", "getUser"}
\* a call on the no-op client: the inert default of a method it defines, a
\* TypeError (call of undefined) for one it lacks
NoopAuth(op) ==
    IF op \in NoopAuthOps
    THEN [throws |-> FALSE, session |-> "", url |-> ""]
    ELSE [throws |-> TRUE, session |-> "", url |-> ""]

\* signInWithOAuth may leave for the identity provider only when configured
signInNavigates == IF configured THEN BOOLEAN ELSE {FALSE}

NoCallback == [pc |-> "none", flow |-> "", target |-> "", atStart |-> <<>>,
               caught |-> ""]
CallbackFlows == {"code", "implicit", "none"}
CallbackStarted(flow, st) ==
    [pc |-> "handshake", flow |-> flow, target |-> "", atStart |-> st.redirect,
     caught |-> ""]

\* SignInButton.handleSignIn from the Home navigation bar; signInWithOAuth
\* either navigates to the identity provider or fails / does nothing
SignInClick(navigates) ==
    /\ UploadRendered
    /\ authSession = ""
    /\ navigates \in signInNavigates
    /\ LET stored == [storage EXCEPT !.redirect = <<"/">>] IN
       IF navigates
       THEN /\ storage' = onBeforeUnload(stored)
            /\ page' = "idp"
            /\ idpInHistory' = TRUE
            /\ PageDestroyed
            /\ last' = UnloadEvent("signIn", stored)
       ELSE /\ storage' = stored
            /\ last' = Event("signIn", <<>>, NoReply, NoCall, "")
            /\ UNCHANGED <<page, sessionVars, validationError, isDragOver, calls,
                           submits, requestsSent, idpInHistory, adapter>>
    /\ UNCHANGED <<authSession, configured, callback>>

SignOutClick ==
    /\ UploadRendered
    /\ authSession # ""
    /\ authSession' = ""
    /\ last' = Event("signOut", <<>>, NoReply, NoCall, "")
    /\ UNCHANGED <<page, sessionVars, validationError, isDragOver, calls, submits,
                   requestsSent, storage>>
    /\ UNCHANGED <<navVars, adapter>>

\* reload of the tab: of the Home page, or of the error page left by an
\* uncaught render error
Reload ==
    /\ page \in {"home", "crashed"}
    /\ storage' = IF page = "home" THEN onBeforeUnload(storage) ELSE storage
    /\ page' = "loading"
    /\ PageDestroyed
    /\ last' = UnloadEvent("unload", storage)
    /\ UNCHANGED <<authSession, navVars>>

\* the tab goes back (or forward) in its history to the identity provider
HistoryToIdp ==
    /\ page = "home"
    /\ idpInHistory
    /\ storage' = onBeforeUnload(storage)
    /\ page' = "idp"
    /\ PageDestroyed
    /\ last' = UnloadEvent("toIdp", storage)
    /\ UNCHANGED <<authSession, navVars>>

\* the callback URL is opened in the tab while Home is shown
OpenCallbackUrl(flow) ==
    /\ page = "home"
    /\ storage' = onBeforeUnload(storage)
    /\ page' = "callback"
    /\ callback' = CallbackStarted(flow, storage')
    /\ PageDestroyed
    /\ last' = UnloadEvent("toCallback", storage)
    /\ UNCHANGED <<authSession, configured, idpInHistory>>

\* UserMenu: <a href="/profile">, shown to a signed-in user
GoProfile ==
    /\ UploadRendered
    /\ authSession # ""
    /\ storage' = onBeforeUnload(storage)
    /\ page' = "profile"
    /\ PageDestroyed
    /\ last' = UnloadEvent("toProfile", storage)
    /\ UNCHANGED <<authSession, navVars>>

\* ProfilePage: SignOutButton for a user
ProfileSignOut ==
    /\ page = "profile"
    /\ authSession # ""
    /\ authSession' = ""
    /\ last' = OffHomeEvent("signOut", "")
    /\ UNCHANGED <<page, sessionVars, validationError, isDragOver, calls, submits,
                   requestsSent, storage, navVars, adapter>>

\* ProfilePage: SignInButton without a user
ProfileSignIn(navigates) ==
    /\ page = "profile"
    /\ authSession = ""
    /\ navigates \in signInNavigates
    /\ storage' = [storage EXCEPT !.redirect = <<"/profile">>]
    /\ page' = IF navigates THEN "idp" ELSE page
    /\ idpInHistory' = (idpInHistory \/ navigates)
    /\ last' = OffHomeEvent("signIn", "")
    /\ UNCHANGED <<sessionVars, validationError, isDragOver, calls, submits,
                   requestsSent, authSession, configured, callback, adapter>>

\* the user leaves the profile page for "/"
ProfileToHome ==
    /\ page = "profile"
    /\ page' = "loading"
    /\ last' = OffHomeEvent("toHome", "")
    /\ UNCHANGED <<sessionVars, validationError, isDragOver, calls, submits,
                   requestsSent, storage, authSession, navVars, adapter>>

\* at the identity provider: back to the app, or on to the callback route
IdpBack ==
    /\ page = "idp"
    /\ page' = "loading"
    /\ last' = OffHomeEvent("idpBack", "")
    /\ UNCHANGED <<sessionVars, validationError, isDragOver, calls, submits,
                   requestsSent, storage, authSession, navVars, adapter>>

IdpRedirects(flow) ==
    /\ page = "idp"
    /\ page' = "callback"
    /\ callback' = CallbackStarted(flow, storage)
    /\ last' = OffHomeEvent("idpRedirect", "")
    /\ UNCHANGED <<sessionVars, validationError, isDragOver, calls, submits,
                   requestsSent, storage, authSession, configured, idpInHistory,
                   adapter>>

\* the auth call the handshake makes for the flow found in the URL
HandshakeCall(flow) ==
    IF flow = "code" THEN "exchangeCodeForSession"
    ELSE IF flow = "implicit" THEN "setSession" ELSE "getSession"

\* how that call ends: a session, an error result or a rejection when
\* configured; what the no-op client does otherwise
HandshakeOutcomes(flow) ==
    IF configured THEN {"session", "error", "throw"}
    ELSE IF NoopAuth(HandshakeCall(flow)).throws THEN {"throw"} ELSE {"null"}

redirectTarget_AlwaysRoot(st) == "/"

\* sessionStorage.getItem('sf.redirect') || '/'
redirectTarget(st) ==
    IF st.redirect # <<>> /\ st.redirect[1] # "" THEN st.redirect[1] ELSE "/"

\* what the catch block of run() gets for a handshake outcome, "" for none
HandshakeError(out) ==
    IF out # "throw" THEN "" ELSE IF configured THEN "AuthError" ELSE "TypeError"

HandshakeSettles_ThrowEscapes(out) ==
    /\ page = "callback"
    /\ callback.pc = "handshake"
    /\ out \in HandshakeOutcomes(callback.flow)
    /\ authSession' = IF out = "session" /\ callback.flow # "none" THEN "tok"
                      ELSE authSession
    /\ callback' = IF out = "throw"
                   THEN [callback EXCEPT !.pc = "rejected", !.caught = HandshakeError(out)]
                   ELSE [callback EXCEPT !.pc = "wait", !.target = redirectTarget(storage)]
    /\ last' = OffHomeEvent("handshake", HandshakeError(out))
    /\ UNCHANGED <<page, sessionVars, validationError, isDragOver, calls, submits,
                   requestsSent, storage, configured, idpInHistory, adapter>>

\* AuthCallback run(): the handshake settles (a rejection is caught and
\* logged), the return path is read and the 500 ms timer is set
HandshakeSettles(out) ==
    /\ page = "callback"
    /\ callback.pc = "handshake"
    /\ out \in HandshakeOutcomes(callback.flow)
    /\ authSession' = IF out = "session" /\ callback.flow # "none" THEN "tok"
                      ELSE authSession
    /\ callback' = [callback EXCEPT !.pc = "wait", !.target = redirectTarget(storage),
                                    !.caught = HandshakeError(out)]
    /\ last' = OffHomeEvent("handshake", HandshakeError(out))
    /\ UNCHANGED <<page, sessionVars, validationError, isDragOver, calls, submits,
                   requestsSent, storage, configured, idpInHistory, adapter>>

\* the timer fires: removeItem('sf.redirect'), router.replace(redirectTarget)
CallbackRedirects ==
    /\ page = "callback"
    /\ callback.pc = "wait"
    /\ storage' = [storage EXCEPT !.redirect = <<>>]
    /\ page' = IF callback.target = "/profile" THEN "profile" ELSE "loading"
    /\ callback' = NoCallback
    /\ last' = [OffHomeEvent("redirect", callback.target) EXCEPT
                    !.handshake = callback.caught]
    /\ UNCHANGED <<sessionVars, validationError, isDragOver, calls, submits,
                   requestsSent, authSession, configured, idpInHistory, adapter>>

\* Home mounts: useState initial values, then the restore effect
Mount ==
    /\ page = "loading"
    /\ page' = "home"
    /\ LET raw == storage.previewState IN
       IF raw = <<>>
       THEN UNCHANGED sessionVars
       ELSE LET saved == JSONParse(raw[1]) IN
            IF saved.diagramCode # "" /\ saved.format # ""
            THEN /\ format' = saved.format
                 /\ generatedDiagram' = saved.diagramCode
                 /\ jobId' = saved.jobId
                 /\ conversionState' = "completed"
                 /\ UNCHANGED <<selectedFile, notes>>
            ELSE UNCHANGED sessionVars
    /\ adapter' = IF conversionState' = "completed"
                  THEN MountAdapter(format', generatedDiagram', adapter)
                  ELSE adapter
    /\ storage' = [storage EXCEPT !.previewState = <<>>]
    /\ last' = [Event("mount", <<>>, NoReply, NoCall, "") EXCEPT
                    !.left = last.left, !.from = last.op]
    /\ UNCHANGED <<validationError, isDragOver, calls, submits, requestsSent,
                   authSession, navVars>>

(***************************************************************************)
(* Steps of the renderer adapters.                                         *)
(***************************************************************************)
MermaidSettles_IgnoresCancelled(i, out) ==
    /\ i \in DOMAIN adapter.renders
    /\ out \in MermaidOutcomes
    /\ LET r == adapter.renders[i]
           rest == SubSeq(adapter.renders, 1, i - 1)
                     \o SubSeq(adapter.renders, i + 1, Len(adapter.renders))
           res == IF r.cancelled THEN adapter.result
                  ELSE IF out = "svg" THEN "svg" ELSE "error" IN
       /\ adapter' =
             IF out = "svg"
             THEN [adapter EXCEPT !.renders = rest, !.result = res,
                                  !.innerHTML = IF adapter.container
                                                THEN Svg(r.input) ELSE @]
             ELSE [adapter EXCEPT !.renders = rest, !.innerHTML = <<>>,
                                  !.error = MermaidErrorMessage(out), !.result = res]
       /\ last' = [Event("rendered", <<>>, NoReply, NoCall, out) EXCEPT !.render = r]
    /\ UNCHANGED <<page, sessionVars, validationError, isDragOver, calls, submits,
                   requestsSent, storage, authSession, navVars>>

MermaidSettles_ErrorResets(i, out) ==
    /\ i \in DOMAIN adapter.renders
    /\ out \in MermaidOutcomes
    /\ LET r == adapter.renders[i]
           rest == SubSeq(adapter.renders, 1, i - 1)
                     \o SubSeq(adapter.renders, i + 1, Len(adapter.renders)) IN
       /\ IF r.cancelled
          THEN /\ adapter' = [adapter EXCEPT !.renders = rest]
               /\ UNCHANGED sessionVars
          ELSE IF out = "svg"
          THEN /\ adapter' = [adapter EXCEPT !.renders = rest, !.result = "svg",
                                             !.innerHTML = IF adapter.container
                                                           THEN Svg(r.input) ELSE @]
               /\ UNCHANGED sessionVars
          ELSE /\ adapter' = NoAdapter
               /\ handleReset
       /\ last' = [Event("rendered", <<>>, NoReply, NoCall, out) EXCEPT !.render = r]
    /\ UNCHANGED <<page, validationError, isDragOver, calls, submits,
                   requestsSent, storage, authSession, navVars>>

\* a mermaid render settles: the svg is written, or the error set, unless
\* the effect that started it has been cleaned up
MermaidSettles(i, out) ==
    /\ i \in DOMAIN adapter.renders
    /\ out \in MermaidOutcomes
    /\ LET r == adapter.renders[i]
           rest == SubSeq(adapter.renders, 1, i - 1)
                     \o SubSeq(adapter.renders, i + 1, Len(adapter.renders)) IN
       /\ adapter' =
             IF r.cancelled THEN [adapter EXCEPT !.renders = rest]
             ELSE IF out = "svg"
                  THEN [adapter EXCEPT !.renders = rest, !.result = "svg",
                                       !.innerHTML = IF adapter.container
                                                     THEN Svg(r.input) ELSE @]
                  ELSE [adapter EXCEPT !.renders = rest, !.innerHTML = <<>>,
                                       !.error = MermaidErrorMessage(out),
                                       !.result = "error"]
       /\ last' = [Event("rendered", <<>>, NoReply, NoCall, out) EXCEPT !.render = r]
    /\ UNCHANGED <<page, sessionVars, validationError, isDragOver, calls, submits,
                   requestsSent, storage, authSession, navVars>>

\* React renders MermaidPreview with its updated error state: the error
\* view replaces the container, or a fresh container the error view
ReactCommit ==
    /\ CommitPending(adapter)
    /\ adapter' = [adapter EXCEPT !.container = MermaidContainerRendered(adapter),
                                  !.innerHTML = <<>>]
    /\ last' = Event("commit", <<>>, NoReply, NoCall, "")
    /\ UNCHANGED <<page, sessionVars, validationError, isDragOver, calls, submits,
                   requestsSent, storage, authSession, navVars>>

\* the image request of PlantUMLPreview ends: load, or error -> setImgError
ImgSettles(ok) ==
    /\ adapter.kind = "uml"
    /\ adapter.img = "pending"
    /\ adapter' = IF ok THEN [adapter EXCEPT !.img = "loaded", !.result = "loaded"]
                  ELSE [adapter EXCEPT !.img = "none", !.imgError = TRUE,
                                       !.result = "failed"]
    /\ last' = Event("image", <<>>, NoReply, NoCall, IF ok THEN "" ELSE "error")
    /\ UNCHANGED <<page, sessionVars, validationError, isDragOver, calls, submits,
                   requestsSent, storage, authSession, navVars>>

\* DiagramPreview's Preview / Code toggle: the Code view renders no adapter,
\* the Preview view mounts the adapter of the format anew
SetActiveView(view) ==
    /\ PreviewRendered
    /\ view # adapter.activeView
    /\ adapter' = IF view = "code"
                  THEN [UnmountAdapter(adapter) EXCEPT !.activeView = "code"]
                  ELSE MountAdapter(format, generatedDiagram, adapter)
    /\ last' = Event("view", <<>>, NoReply, NoCall, "")
    /\ UNCHANGED <<page, sessionVars, validationError, isDragOver, calls, submits,
                   requestsSent, storage, authSession, navVars>>

\* DiagramPreview is rendered, by Home or by the parent of RenderSpec
DiagramPreviewMounted == PreviewRendered \/ (page = "host" /\ adapter.kind # "none")
\* its diagramCode prop
diagramCode == IF page = "host" THEN adapter.code ELSE generatedDiagram

\* replies to GET /api/conversions/{jobId}/code
CodeReplies ==
    {[NoReply EXCEPT !.kind = "neterror"]}
    \cup {[NoReply EXCEPT !.kind = "http", !.http = h] : h \in HttpStatuses}
    \cup {[NoReply EXCEPT !.kind = "http", !.http = 200, !.json = TRUE, !.code = c]
            : c \in Codes \cup {""}}

\* supabase.auth.getSession() as DiagramPreview calls it
getSessionOutcomes == IF configured THEN {"throw", authSession} ELSE {""}

\* the code both buttons try to fetch: with an API base and a job id the
\* session is read and the code requested; err is what is thrown on the way,
\* code what `code` holds at the end, reply the answer if a request was made
FetchAuthoritative(inline, apiBase, job, sess, reply) ==
    IF ~apiBase \/ job = ""
    THEN [err |-> "", code |-> inline, reply |-> NoReply]
    ELSE IF sess = "throw"
    THEN [err |-> "AuthError", code |-> inline, reply |-> NoReply]
    ELSE IF reply.kind = "neterror"
    THEN [err |-> "TypeError", code |-> inline, reply |-> reply]
    ELSE IF ~ResponseOk(reply.http)
    THEN [err |-> "", code |-> inline, reply |-> reply]
    ELSE IF ~reply.json
    THEN [err |-> "SyntaxError", code |-> inline, reply |-> reply]
    ELSE [err |-> "", code |-> IF reply.code # "" THEN reply.code ELSE inline,
          reply |-> reply]

\* DiagramPreview.handleCopyCode: one try block around the fetch and the
\* clipboard write; whatever is thrown is logged and nothing is copied
handleCopyCode(apiBase, sess, reply, clipboardOk) ==
    LET r == FetchAuthoritative(diagramCode, apiBase, jobId, sess, reply) IN
    IF r.err # "" THEN [err |-> r.err, delivered |-> <<>>, reply |-> r.reply]
    ELSE IF ~clipboardOk
    THEN [err |-> "NotAllowedError", delivered |-> <<>>, reply |-> r.reply]
    ELSE [err |-> "", delivered |-> <<r.code>>, reply |-> r.reply]

\* DiagramPreview.handleDownload: the fetch has a try block of its own with
\* an empty catch; the file is always built from `code`
handleDownload(apiBase, sess, reply) ==
    LET r == FetchAuthoritative(diagramCode, apiBase, jobId, sess, reply) IN
    [err |-> r.err, delivered |-> <<r.code>>, reply |-> r.reply]

\* "Copy Code"
ClickCopy(apiBase, sess, reply, clipboardOk) ==
    /\ DiagramPreviewMounted
    /\ sess \in getSessionOutcomes
    /\ reply \in CodeReplies
    /\ LET h == handleCopyCode(apiBase, sess, reply, clipboardOk) IN
       /\ adapter' = IF h.delivered # <<>> THEN [adapter EXCEPT !.copied = TRUE]
                     ELSE adapter
       /\ last' = [Event("copy", <<>>, h.reply, NoCall, h.err) EXCEPT
                       !.delivered = h.delivered]
    /\ UNCHANGED <<page, sessionVars, validationError, isDragOver, calls, submits,
                   requestsSent, storage, authSession, navVars>>

\* "Download File"
ClickDownload(apiBase, sess, reply) ==
    /\ DiagramPreviewMounted
    /\ sess \in getSessionOutcomes
    /\ reply \in CodeReplies
    /\ LET h == handleDownload(apiBase, sess, reply) IN
       /\ adapter' = [adapter EXCEPT !.downloaded = TRUE]
       /\ last' = [Event("download", <<>>, h.reply, NoCall, h.err) EXCEPT
                       !.delivered = h.delivered]
    /\ UNCHANGED <<page, sessionVars, validationError, isDragOver, calls, submits,
                   requestsSent, storage, authSession, navVars>>

\* setTimeout(() => setCopied(false), 2000)
CopiedExpires ==
    /\ DiagramPreviewMounted
    /\ adapter.copied
    /\ adapter' = [adapter EXCEPT !.copied = FALSE]
    /\ last' = Event("copiedExpires", <<>>, NoReply, NoCall, "")
    /\ UNCHANGED <<page, sessionVars, validationError, isDragOver, calls, submits,
                   requestsSent, storage, authSession, navVars>>

\* setTimeout(() => setDownloaded(false), 2000)
DownloadedExpires ==
    /\ DiagramPreviewMounted
    /\ adapter.downloaded
    /\ adapter' = [adapter EXCEPT !.downloaded = FALSE]
    /\ last' = Event("downloadedExpires", <<>>, NoReply, NoCall, "")
    /\ UNCHANGED <<page, sessionVars, validationError, isDragOver, calls, submits,
                   requestsSent, storage, authSession, navVars>>

\* DrawioPreview's fallbackUrl effect ends: pako was imported and the url is
\* set, or the import / deflate failed and it is set to null
FallbackUrlSettles(ok) ==
    /\ adapter.kind = "drawio"
    /\ adapter.urlPending
    /\ adapter' = [adapter EXCEPT !.urlPending = FALSE,
                                  !.fallbackUrl = IF ok THEN EscapeHatchUrl(adapter.code)
                                                  ELSE <<>>]
    /\ last' = Event("fallbackUrl", <<>>, NoReply, NoCall, IF ok THEN "" ELSE "error")
    /\ UNCHANGED <<page, sessionVars, validationError, isDragOver, calls, submits,
                   requestsSent, storage, authSession, navVars>>

\* an exception is thrown while an adapter is rendered: MermaidErrorBoundary
\* catches it for MermaidPreview and shows MermaidFallback; around
\* DrawioPreview and PlantUMLPreview there is no boundary, the error reaches
\* the root and the whole tree is unmounted
AdapterThrows ==
    /\ adapter.kind # "none"
    /\ ~adapter.hasError
    /\ IF adapter.kind = "mermaid"
       THEN /\ adapter' = [UnmountAdapter(adapter) EXCEPT !.kind = "mermaid",
                                                         !.code = adapter.code,
                                                         !.hasError = TRUE,
                                                         !.result = "fallback"]
            /\ UNCHANGED <<page, sessionVars, validationError, isDragOver, calls,
                           submits, requestsSent>>
       ELSE /\ page' = "crashed"
            /\ PageDestroyed
    /\ last' = Event("throw", <<>>, NoReply, NoCall, adapter.kind)
    /\ UNCHANGED <<storage, authSession, navVars>>

\* the parent of DiagramPreview passes a new format or diagramCode
HostChangesProps(fmt, code) ==
    /\ page = "host"
    /\ adapter.kind # "none"
    /\ <<fmt, code>> # <<adapter.kind, adapter.code>>
    /\ Len(adapter.renders) < MaxRenders
    /\ adapter' =
          IF fmt # adapter.kind THEN MountAdapter(fmt, code, adapter)
          ELSE IF fmt = "mermaid"
               THEN IF adapter.hasError THEN [adapter EXCEPT !.code = code]
                    ELSE MermaidEffect(adapter, code)
          ELSE IF fmt = "drawio" THEN DrawioEffect(adapter, code)
          ELSE PlantUMLRender(adapter, code)
    /\ last' = [Event("props", <<>>, NoReply, NoCall, "") EXCEPT
                    !.from = adapter.kind,
                    !.render = [input |-> adapter.code, cancelled |-> TRUE]]
    /\ UNCHANGED <<page, sessionVars, validationError, isDragOver, calls, submits,
                   requestsSent, storage, authSession, navVars>>

(***************************************************************************)
(* Specification.                                                          *)
(***************************************************************************)
Init ==
    /\ page = "home"
    /\ conversionState = "idle"
    /\ selectedFile = NullFile
    /\ notes = ""
    /\ format = "mermaid"
    /\ generatedDiagram = ""
    /\ jobId = ""
    /\ validationError = ""
    /\ isDragOver = FALSE
    /\ calls = <<>>
    /\ submits = 0
    /\ requestsSent = 0
    /\ storage = [redirect |-> <<>>, previewState |-> <<>>]
    /\ authSession = ""
    /\ configured \in BOOLEAN
    /\ idpInHistory = FALSE
    /\ callback = NoCallback
    /\ adapter = NoAdapter
    /\ last = NoEvent

Next ==
    \/ \E file \in Files : HandleFileChange(file)
    \/ HandleDragOver
    \/ HandleDragLeave
    \/ \E files \in FileLists : HandleDrop(files)
    \/ \E items \in FileLists : OnPaste(items)
    \/ \E text \in NotesTexts : UpdateNotes(text)
    \/ \E fmt \in Formats : UpdateFormat(fmt)
    \/ ClickReset
    \/ ClickConvert
    \/ \E i \in 1..MaxCalls, outcome \in {"throw", "", "tok"} : TokenSettles(i, outcome)
    \/ Tick
    \/ \E i \in 1..MaxCalls, reply \in Replies : FetchSettles(i, reply)
    \/ \E i \in 1..MaxCalls : TimeoutAborts(i)
    \/ \E navigates \in BOOLEAN : SignInClick(navigates)
    \/ SignOutClick
    \/ Reload
    \/ HistoryToIdp
    \/ \E flow \in CallbackFlows : OpenCallbackUrl(flow)
    \/ GoProfile
    \/ ProfileSignOut
    \/ \E navigates \in BOOLEAN : ProfileSignIn(navigates)
    \/ ProfileToHome
    \/ IdpBack
    \/ \E flow \in CallbackFlows : IdpRedirects(flow)
    \/ \E out \in {"session", "error", "throw", "null"} : HandshakeSettles(out)
    \/ CallbackRedirects
    \/ Mount
    \/ \E i \in DOMAIN adapter.renders, out \in MermaidOutcomes : MermaidSettles(i, out)
    \/ ReactCommit
    \/ \E ok \in BOOLEAN : FallbackUrlSettles(ok)
    \/ \E view \in {"preview", "code"} : SetActiveView(view)
    \/ AdapterThrows

Spec == Init /\ [][Next]_vars

(***************************************************************************)
(* DiagramPreview under a parent that may pass any format, code and job id. *)
(***************************************************************************)
RenderInit ==
    /\ page = "host"
    /\ conversionState = "idle"
    /\ selectedFile = NullFile
    /\ notes = ""
    /\ format = "mermaid"
    /\ generatedDiagram = ""
    /\ jobId \in {"", "abc"}
    /\ validationError = ""
    /\ isDragOver = FALSE
    /\ calls = <<>>
    /\ submits = 0
    /\ requestsSent = 0
    /\ storage = [redirect |-> <<>>, previewState |-> <<>>]
    /\ authSession = ""
    /\ configured = TRUE
    /\ idpInHistory = FALSE
    /\ callback = NoCallback
    /\ \E fmt \in RenderFormats, code \in RenderCodes :
          adapter = MountAdapter(fmt, code, NoAdapter)
    /\ last = [NoEvent EXCEPT !.op = "props"]

RenderNext ==
    \/ \E fmt \in RenderFormats, code \in RenderCodes : HostChangesProps(fmt, code)
    \/ \E i \in DOMAIN adapter.renders, out \in MermaidOutcomes : MermaidSettles(i, out)
    \/ ReactCommit
    \/ \E ok \in BOOLEAN : ImgSettles(ok)
    \/ \E ok \in BOOLEAN : FallbackUrlSettles(ok)
    \/ \E apiBase \in BOOLEAN, sess \in {"throw", "", "tok"}, reply \in CodeReplies,
          clipboardOk \in BOOLEAN : ClickCopy(apiBase, sess, reply, clipboardOk)
    \/ \E apiBase \in BOOLEAN, sess \in {"throw", "", "tok"}, reply \in CodeReplies :
          ClickDownload(apiBase, sess, reply)
    \/ CopiedExpires
    \/ DownloadedExpires
    \/ AdapterThrows

RenderSpec == RenderInit /\ [][RenderNext]_vars


(***************************************************************************)
(* Properties.                                                             *)
(***************************************************************************)
Pending(pc) == {i \in 1..Len(calls) : calls[i].pc = pc}
SelectOps == {"fileChange", "drop", "paste"}

\* C1: at most one conversion request is in flight per session: while a
\* submit is pending the state is Processing, no second handleConvert
\* invocation starts and no second POST /api/convert is sent.
C1_SingleRequestInFlight ==
    /\ Cardinality(Pending("fetch")) <= 1
    /\ Len(calls) <= 1
    /\ (calls # <<>> => conversionState = "processing")
    /\ requestsSent <= submits

\* a second submit of the page load has its request in flight, alone
C1_Witness ==
    /\ submits = 2
    /\ requestsSent = 2
    /\ Cardinality(Pending("fetch")) = 1
    /\ conversionState = "processing"

\* C2 (as claimed): generatedDiagram is non-empty if and only if the
\* state is Completed, in every reachable state.
C2_ResultSourceIffCompleted ==
    (generatedDiagram # "") <=> (conversionState = "completed")

Step(from, to) == conversionState = from /\ conversionState' = to

\* C3 (as claimed): the only transitions are Idle->Uploading by selectArtifact,
\* Uploading->Processing by submit, Processing->Completed, Processing->Failed,
\* and Completed->Idle, Failed->Idle by reset.
C3_OnlyListedTransitions ==
    [][conversionState' # conversionState =>
          \/ Step("idle", "uploading") /\ last'.op \in SelectOps
          \/ Step("uploading", "processing") /\ last'.op = "convert"
          \/ Step("processing", "completed")
          \/ Step("processing", "error")
          \/ Step("completed", "idle") /\ last'.op = "reset"
          \/ Step("error", "idle") /\ last'.op = "reset"]_vars

\* C3 (amended): besides the listed transitions the session also goes
\* Uploading->Idle by reset ("Back to Upload") and Idle->Completed when the
\* mount restores a saved snapshot; a page unload discards the session, which
\* starts again from Idle.  No other transition occurs.
C3_TransitionsAmended ==
    [][conversionState' # conversionState =>
          \/ Step("idle", "uploading") /\ last'.op \in SelectOps
          \/ Step("uploading", "processing") /\ last'.op = "convert"
          \/ Step("processing", "completed") /\ last'.op = "reply"
          \/ Step("processing", "error") /\ last'.op \in {"reply", "timeout"}
          \/ Step("completed", "idle") /\ last'.op = "reset"
          \/ Step("error", "idle") /\ last'.op = "reset"
          \/ Step("uploading", "idle") /\ last'.op = "reset"
          \/ Step("idle", "completed") /\ last'.op = "mount"
          \/ conversionState' = "idle" /\ page = "home" /\ page' # "home"]_vars

\* the mount has restored a snapshot straight into Completed
C3_Witness ==
    /\ last.op = "mount"
    /\ last.pre.conversionState = "idle"
    /\ conversionState = "completed"
    /\ selectedFile = NullFile

\* the allow-list and the size limit as the claims state them
ClaimedValid(file) ==
    /\ file.type \in {"image/jpeg", "image/png", "image/webp"}
    /\ file.size <= 10485760
ClaimedInvalid(file) ==
    \/ file.type \notin {"image/jpeg", "image/jpg", "image/png", "image/webp"}
    \/ file.size > 10485760

\* C4: a JPEG, PNG or WebP file of at most 10 MiB (10 MiB included), offered
\* in Idle through the dialog, a drop or a paste, moves the session to
\* Uploading with that very file as selectedFile.
C4_ValidFileSelected ==
    (last.op \in SelectOps /\ ClaimedValid(last.files[1])) =>
        /\ last.pre.conversionState = "idle"
        /\ last.pre.selectedFile = NullFile
        /\ conversionState = "uploading"
        /\ selectedFile = last.files[1]

\* a PNG of exactly 10 MiB was chosen in the dialog and is now the artifact
C4_Witness ==
    /\ last.op = "fileChange"
    /\ last.files[1] = [type |-> "image/png", size |-> 10485760]
    /\ conversionState = "uploading"
    /\ selectedFile = [type |-> "image/png", size |-> 10485760]

\* C5: a file of a type outside the allow-list or larger than 10 MiB is never
\* stored; an event (dialog, drop, paste) that offers only such files leaves
\* conversionState and selectedFile as they were and shows the validation
\* error of the file rejected last.
C5_InvalidFileRejected ==
    /\ selectedFile # NullFile => ~ClaimedInvalid(selectedFile)
    /\ (/\ last.op \in SelectOps
        /\ IF last.op = "paste"
           THEN \A i \in 1..Len(last.files) : ClaimedInvalid(last.files[i])
           ELSE ClaimedInvalid(last.files[1]))
       => /\ conversionState = last.pre.conversionState
          /\ selectedFile = last.pre.selectedFile
          /\ LET rejected == IF last.op = "paste" THEN last.files[Len(last.files)]
                             ELSE last.files[1] IN
             validationError =
                IF rejected.type \notin {"image/jpeg", "image/jpg", "image/png", "image/webp"}
                THEN TypeError ELSE SizeError

\* a dropped PNG just over 10 MiB was rejected with the size message
C5_Witness ==
    /\ last.op = "drop"
    /\ last.files[1] = [type |-> "image/png", size |-> 10485761]
    /\ conversionState = "idle"
    /\ selectedFile = NullFile
    /\ validationError = SizeError


\* C6: when the request of a submit finishes, a 2xx reply with status=completed
\* (and its result) moves Processing to Completed with generatedDiagram the
\* returned code and jobId the returned job id; a status=failed body, a
\* non-2xx status or a network error moves Processing to Failed.
C6_ReplyOutcome ==
    last.op = "reply" =>
        LET r == last.reply IN
        /\ last.pre.conversionState = "processing"
        /\ (r.kind = "http" /\ r.http \in 200..299 /\ r.json
               /\ r.status = "completed" /\ r.hasResult)
           => /\ conversionState = "completed"
              /\ generatedDiagram = r.code
              /\ jobId = (IF r.rjob # "" THEN r.rjob ELSE r.job)
        /\ (r.kind = "http" /\ r.http \in 200..299 /\ r.json /\ r.status = "failed")
           => conversionState = "error"
        /\ (r.kind = "http" /\ r.http \notin 200..299) => conversionState = "error"
        /\ r.kind = "neterror" => conversionState = "error"

\* scenario A: a drawio submit answered with <mxGraphModel/> and job id abc
C6_Witness ==
    /\ last.op = "reply"
    /\ last.call.format = "drawio"
    /\ last.reply.status = "completed"
    /\ conversionState = "completed"
    /\ generatedDiagram = "<mxGraphModel/>"
    /\ jobId = "abc"

C8_ResetClearsEveryField ==
    last.op = "reset" =>
        /\ conversionState = "idle"
        /\ selectedFile = NullFile
        /\ notes = ""
        /\ format = "mermaid"
        /\ generatedDiagram = ""
        /\ jobId = ""

\* C9: the notes and format controls change notes / format only while the
\* state is Uploading, and change nothing else; while the state is Processing
\* no event changes notes, format or the selected file.
C9_EditsOnlyWhileUploading ==
    [][/\ last'.op = "notes" =>
            /\ conversionState = "uploading"
            /\ UNCHANGED <<page, conversionState, selectedFile, format,
                           generatedDiagram, jobId, calls, storage>>
       /\ last'.op = "format" =>
            /\ conversionState = "uploading"
            /\ UNCHANGED <<page, conversionState, selectedFile, notes,
                           generatedDiagram, jobId, calls, storage>>
       /\ (conversionState = "processing" /\ page' = "home") =>
            UNCHANGED <<notes, format, selectedFile>>]_vars

\* Processing was entered with edited notes and format, which are still there
C9_Witness ==
    /\ conversionState = "processing"
    /\ notes = "login flow"
    /\ format = "drawio"
    /\ last.op \in {"token", "tick"}

\* C10: whatever getAccessToken does, the one request of the submit is sent:
\* without an Authorization header when it throws or yields no token, with
\* 'Authorization: Bearer <token>' when it yields a token.
C10_TokenNeverBlocks ==
    /\ \A i \in 1..Len(calls) :
          calls[i].pc = "fetch" =>
             /\ calls[i].sent = 1
             /\ calls[i].tok \in {"throw", ""} => calls[i].auth = ""
             /\ calls[i].tok \notin {"throw", ""} => calls[i].auth = "Bearer " \o calls[i].tok
    /\ last.op = "token" =>
          /\ last.call.pc = "fetch"
          /\ last.call.sent = 1
          /\ conversionState = "processing"

\* a signed-in submit whose token retrieval threw has its request in flight
C10_Witness ==
    /\ authSession = "tok"
    /\ last.op = "token"
    /\ last.call.tok = "throw"
    /\ last.call.auth = ""
    /\ Cardinality(Pending("fetch")) = 1

\* C11: a snapshot saved when Home unloads and taken by the next Home mount
\* gives back exactly the saved format, generatedDiagram and jobId (state
\* Completed); the take deletes the key, so no snapshot is left once Home is
\* mounted, and a mount that finds no snapshot restores nothing.
C11_SnapshotRoundTrip ==
    [][last'.op = "mount" =>
          /\ storage'.previewState = <<>>
          /\ storage.previewState # <<>> =>
                /\ last.left.conversionState = "completed"
                /\ conversionState' = "completed"
                /\ format' = last.left.format
                /\ generatedDiagram' = last.left.generatedDiagram
                /\ jobId' = last.left.jobId
          /\ storage.previewState = <<>> =>
                /\ UNCHANGED sessionVars
                /\ conversionState' = "idle"
                /\ generatedDiagram' = ""]_vars

\* a drawio result with job id abc came back from the snapshot of a reload
C11_Witness ==
    /\ last.op = "mount"
    /\ last.from = "unload"
    /\ storage.previewState = <<>>
    /\ conversionState = "completed"
    /\ format = "drawio"
    /\ generatedDiagram = "<mxGraphModel/>"
    /\ jobId = "abc"

C13_ReturnPathConsumedOnce ==
    [][/\ callback'.pc = "wait" =>
             callback'.target = IF callback'.atStart = <<>> THEN "/"
                                ELSE callback'.atStart[1]
       /\ last'.op = "redirect" =>
             /\ callback.pc = "wait"
             /\ last'.err = callback.target
             /\ page' = (IF callback.target = "/profile" THEN "profile" ELSE "loading")
             /\ storage'.redirect = <<>>
       /\ (storage'.redirect # storage.redirect /\ storage'.redirect # <<>>) =>
             last'.op = "signIn"
       /\ (callback'.pc = "handshake" /\ callback.pc # "handshake") =>
             callback'.atStart = storage'.redirect]_vars

\* a sign-in started on the profile page has come back to the profile page
C13_Witness ==
    /\ last.op = "redirect"
    /\ last.err = "/profile"
    /\ page = "profile"
    /\ storage.redirect = <<>>
    /\ authSession = "tok"

\* C14 (as claimed): without configuration every auth operation the
\* application invokes returns an inert default and none throws; in
\* particular no handshake call of the callback route throws.
C14_NoopNeverThrows ==
    ~configured =>
        /\ authSession = ""
        /\ last.op = "handshake" => last.err = ""

\* what the adapter displays
Display(a) == <<a.error, a.loading, a.innerHTML, a.imgError, a.hasError, Outcome(a)>>

\* C15: a render superseded by a change of the input never touches what is
\* displayed when it completes late, with a success or an error; once the
\* render of the current input has settled, the adapter displays that
\* render's outcome for the current input.
C15_StaleRenderIgnored ==
    [][/\ (last'.op = "rendered" /\ last'.render.cancelled) =>
             /\ Display(adapter') = Display(adapter)
             /\ adapter'.result = adapter.result
       /\ (/\ adapter'.kind = "mermaid"
           /\ adapter'.superseding
           /\ ~CommitPending(adapter')) =>
             /\ adapter'.result = "svg" =>
                   /\ adapter'.innerHTML = Svg(adapter'.code)
                   /\ Outcome(adapter') = "Ready"
             /\ adapter'.result = "error" =>
                   /\ adapter'.innerHTML = <<>>
                   /\ Outcome(adapter') = "Error"
       /\ (adapter'.kind = "uml" /\ adapter'.result = "loaded") =>
             Outcome(adapter') = "Ready"
       /\ (adapter'.kind = "uml" /\ adapter'.result = "failed") =>
             Outcome(adapter') = "Error"]_vars

\* R1 for a stale input failed after R2 for the current input had been drawn:
\* the drawing of R2 is still shown
C15_Witness ==
    /\ last.op = "rendered"
    /\ last.render.cancelled
    /\ last.render.input # adapter.code
    /\ last.err = "Error"
    /\ adapter.kind = "mermaid"
    /\ adapter.superseding
    /\ adapter.result = "svg"
    /\ adapter.innerHTML = Svg(adapter.code)
    /\ adapter.renders = <<>>

\* C16 (as claimed): an adapter given empty or blank source text, once
\* nothing of its render is pending any more, shows Ready with an explicit
\* nothing-to-display indicator, never Error (and never stays Loading).
C16_BlankInputReady ==
    (/\ adapter.kind \in RenderFormats
     /\ ~adapter.hasError
     /\ Trim(adapter.code) = ""
     /\ ~AdapterPending(adapter))
    => /\ Outcome(adapter) = "Ready"
       /\ EmptyIndicator(adapter) # ""

\* C17 (as claimed): a graph-XML adapter with non-empty XML leaves Loading,
\* through the frame's init/ready signal or the 10 s timer; while it shows
\* Loading its frame is therefore embedded and its timer armed.
C17_LoadingFrameEmbedded ==
    (/\ adapter.kind = "drawio"
     /\ adapter.code # ""
     /\ Outcome(adapter) = "Loading")
    => /\ adapter.frame
       /\ adapter.timer

\* C18 (as claimed): an exception thrown inside an adapter ends in the
\* boundary: the fallback is shown, Home stays rendered and its session is
\* what it was.
C18_BoundaryCatchesAdapterError ==
    last.op = "throw" =>
        /\ page \in {"home", "host"}
        /\ adapter.hasError
        /\ Outcome(adapter) = "Error"
        /\ Session = last.pre

\* C19: no outcome change of a renderer touches the session: it occurs in
\* Completed and leaves conversionState, generatedDiagram, jobId and format
\* (and the other session fields) as they are; the adapter always renders
\* the session's generatedDiagram in the session's format.
C19_RenderLeavesSession ==
    [][/\ last'.op \in {"rendered", "image"} =>
             /\ conversionState = "completed"
             /\ UNCHANGED <<page, sessionVars, storage>>
       /\ adapter'.kind # "none" =>
             /\ page' = "home"
             /\ conversionState' = "completed"
             /\ adapter'.code = generatedDiagram'
             /\ adapter'.kind = format']_vars

\* the mermaid render of a completed session failed to parse: the preview
\* shows the error, the session still holds the code
C19_Witness ==
    /\ last.op = "rendered"
    /\ last.err = "Error"
    /\ adapter.result = "error"
    /\ adapter.error = MermaidErrorMessage("Error")
    /\ conversionState = "completed"
    /\ generatedDiagram = "<mxGraphModel/>"
    /\ format = "mermaid"
    /\ jobId = "abc"

\* C20: a failed attempt is never retried: in Failed no handleConvert
\* invocation is pending, a request is sent only by the invocation a user
\* submit started, one per submit, and the requests sent never exceed the
\* submits.
C20_NoAutomaticRetry ==
    [][/\ conversionState' = "error" => calls' = <<>>
       /\ requestsSent' > requestsSent =>
             /\ requestsSent' = requestsSent + 1
             /\ last'.op = "token"
             /\ conversionState = "processing"
             /\ last'.call.sent = 1
       /\ requestsSent' <= submits'
       /\ (conversionState = "error" /\ page' = "home") =>
             /\ requestsSent' = requestsSent
             /\ conversionState' \in {"error", "idle"}]_vars

\* after a timeout and a reset the user has submitted again: two submits,
\* two requests
C20_Witness ==
    /\ submits = 2
    /\ requestsSent = 2
    /\ last.op = "token"
    /\ last.pre.conversionState = "processing"
    /\ last.call.elapsed = 0

\* C21 (as claimed): every accepted submit leaves Processing for Completed or
\* Failed; while the session is Processing an invocation of handleConvert is
\* therefore still pending (its reply or its timer will end the state).
C21_ProcessingAlwaysEnds ==
    (page = "home" /\ conversionState = "processing") => calls # <<>>

\* C22: a reply, failure or timeout is handled only while the session is
\* Processing for the very submit that issued the request (the invocation
\* holds the session's file, format and notes); a reset happens only when no
\* invocation is pending, and once the session has left Processing no
\* outcome of an earlier request is left to arrive.
C22_OutcomeOnlyForItsSubmit ==
    [][/\ last'.op \in {"reply", "timeout"} =>
             /\ conversionState = "processing"
             /\ Len(calls) = 1
             /\ calls[1].file = selectedFile
             /\ calls[1].format = format
             /\ calls[1].notes = notes
             /\ last'.call.file = calls[1].file
       /\ last'.op = "reset" => calls = <<>> /\ calls' = <<>>
       /\ conversionState' # "processing" => calls' = <<>>
       /\ (conversionState # "processing" /\ page = "home" /\ page' = "home"
              /\ last'.op \notin {"reset", "mount", "convert"} \cup SelectOps) =>
             UNCHANGED <<conversionState, generatedDiagram, jobId>>]_vars

\* after a failed first attempt and a reset, the reply of the second submit
\* completed the session
C22_Witness ==
    /\ last.op = "reply"
    /\ submits = 2
    /\ requestsSent = 2
    /\ last.pre.conversionState = "processing"
    /\ last.call.file = selectedFile
    /\ conversionState = "completed"
    /\ calls = <<>>

\* C23 (as claimed): the UML-script adapter shows Error only when the image
\* of its current input failed to load; a failure for an earlier input does
\* not make it show Error for a different input.
C23_ErrorOnlyForCurrentInput ==
    (adapter.kind = "uml" /\ Outcome(adapter) = "Error") => adapter.result = "failed"

\* C24 (as claimed): a snapshot is written only by the unload that leaves
\* Home for the identity provider as part of a sign-in; a reload or any
\* other navigation away from Home writes none.
C24_SnapshotOnlyOnSignIn ==
    [][(storage'.previewState # <<>> /\ storage'.previewState # storage.previewState) =>
          /\ last'.op = "signIn"
          /\ page' = "idp"]_vars

\* C25 (as claimed): once the render of the latest input has settled and
\* the view is committed, the text-diagram adapter's container holds exactly
\* the output for that input after a success (whatever was rendered before),
\* and is empty with the parser message shown after a failure.
C25_ContainerHoldsLatestOutput ==
    (adapter.kind = "mermaid" /\ ~adapter.hasError /\ ~CommitPending(adapter)) =>
        /\ adapter.result = "svg" =>
              /\ adapter.innerHTML = Svg(adapter.code)
              /\ Outcome(adapter) = "Ready"
        /\ adapter.result = "error" =>
              /\ adapter.innerHTML = <<>>
              /\ adapter.error \in {MermaidErrorMessage(e) : e \in MermaidOutcomes \ {"svg"}}
              /\ Outcome(adapter) = "Error"

\* C26 (as claimed): for non-empty XML the graph-XML adapter, once the
\* computation of its url has ended, holds the url of the full editor for
\* that XML and shows the link, whatever it displays (Loading, Ready, Error).
C26_EscapeHatchExposed ==
    (adapter.kind = "drawio" /\ adapter.code # "" /\ ~adapter.urlPending) =>
        /\ adapter.fallbackUrl = EscapeHatchUrl(adapter.code)
        /\ LinkExposed(adapter)

\* C28: whatever the handshake of a callback run does - a session, an error
\* result, or an exception (also the TypeError of a client that lacks the
\* operation) - the run goes on to read the return path and set its timer;
\* no state of the callback route is without a next step, and the route is
\* left only by the redirect, which deletes the stored path and navigates to
\* the path read.
C28_CallbackAlwaysRedirects ==
    [][/\ last'.op = "handshake" =>
             /\ page' = "callback"
             /\ callback'.pc = "wait"
             /\ callback'.target = redirectTarget(storage)
             /\ callback'.caught = last'.err
       /\ page' = "callback" =>
             \/ callback'.pc = "handshake" /\ HandshakeOutcomes(callback'.flow) # {}
             \/ callback'.pc = "wait"
       /\ (page = "callback" /\ page' # "callback") =>
             /\ callback.pc = "wait"
             /\ last'.op = "redirect"
             /\ last'.err = callback.target
             /\ storage'.redirect = <<>>
             /\ page' = (IF callback.target = "/profile" THEN "profile" ELSE "loading")]_vars

\* without configuration the implicit-flow handshake threw (the no-op client
\* has no setSession); the redirect to the stored path was performed all the
\* same and the path is deleted
C28_Witness ==
    /\ ~configured
    /\ last.op = "redirect"
    /\ last.handshake = "TypeError"
    /\ last.err = "/"
    /\ last.left.hasRedirect
    /\ page = "loading"
    /\ storage.redirect = <<>>

C30_CopyAndDownloadFallBack ==
    (/\ last.op \in {"copy", "download"}
     /\ \/ last.reply.kind = "neterror"
        \/ last.reply.kind = "http" /\ last.reply.http \notin 200..299
     /\ last.err # "NotAllowedError")
    => last.delivered = <<diagramCode>>

====
